---- MODULE Spec2Model ----
(***************************************************************************)
(* Model of experiment.py: the retrieval experiment runner.                *)
(*                                                                         *)
(* A string is a sequence of atoms.  An atom is an indivisible piece of    *)
(* text: one character (" ", "/", "{", "7") or a run of characters that no *)
(* operation of the program ever looks inside ("retrieval_results").       *)
(***************************************************************************)
EXTENDS Integers, Sequences, FiniteSets, TLC

VARIABLES
    pc,                       \* position of the main sequence (lines 170-175)
    argv_working_dir,         \* Experiment.__init__'s working_dir_path argument
    models_file,              \* lines of experiment_models.list, as readlines() gives them
    dirs,                     \* the directories that exist
    files,                    \* path -> content of the text files the run writes
    result_files,             \* path -> rows of the result files that exist
    table_files,              \* path -> header and rows of the tables the run writes
    working_dir_path,         \* self.working_dir_path
    transform_commands,       \* self.transform_commands
    transform_data_folders,   \* self.transform_data_folders
    retrieval_commands,       \* self.retrieval_commands
    retrieval_result_folders, \* self.retrieval_result_folders
    stdout,                   \* result.stdout of the last subprocess.run
    transform_job_id,         \* local of run
    retrieval_job_id,         \* local of run
    calls,                    \* the external invocations issued so far, in order
    jobs,                     \* the scheduler's jobs, in order of submission
    next_job_id,              \* the id the scheduler gives the next job
    kill_invalid_depend,      \* scheduler configuration: cancel a job whose dependency failed
    todo,                     \* create_overall_results_table: models still to read
    overall_results,          \* create_overall_results_table: the rows gathered so far
    error,                    \* the exception that ended the main sequence, or "none"
    format_string,            \* vformat: the template to render
    kwargs,                   \* vformat: the contexts, one for each rendering pass
    rendered                  \* vformat: what each rendering done so far gave

vars == <<pc, argv_working_dir, models_file, dirs, files, result_files, table_files,
          working_dir_path, transform_commands, transform_data_folders,
          retrieval_commands, retrieval_result_folders, stdout, transform_job_id,
          retrieval_job_id, calls, jobs, next_job_id, kill_invalid_depend, todo,
          overall_results, error, format_string, kwargs, rendered>>

inputs == <<argv_working_dir, models_file, kill_invalid_depend>>
prepared == <<transform_commands, transform_data_folders, retrieval_commands,
              retrieval_result_folders>>
job_ids == <<transform_job_id, retrieval_job_id>>
aggregation == <<todo, overall_results, table_files>>
rendering == <<format_string, kwargs, rendered>>

(***************************************************************************)
(* Bounds of the model.                                                    *)
(***************************************************************************)
MaxModels == 2        \* lines of the model list file
MaxOutLen == 5        \* characters of an arbitrary submission output
MaxRows == 3          \* rows of a result file
MaxScore == 3         \* scores are 0..MaxScore
FirstJobId == 9       \* the id of the first job the scheduler accepts
MaxTemplateParts == 3 \* pieces a template to render on its own is made of

(***************************************************************************)
(* Strings.                                                                *)
(***************************************************************************)
Whitespace == {" ", "\n"}
Digits == {"0", "1", "2", "3", "4", "5", "6", "7", "8", "9"}

Last(s) == s[Len(s)]
Front(s) == SubSeq(s, 1, Len(s) - 1)

RECURSIVE Concat(_)
\* ''.join(seq_of_strings)
Concat(ss) == IF ss = <<>> THEN <<>> ELSE Head(ss) \o Concat(Tail(ss))

RECURSIVE LStrip(_)
LStrip(s) == IF s # <<>> /\ Head(s) \in Whitespace THEN LStrip(Tail(s)) ELSE s

RECURSIVE RStrip(_)
RStrip(s) == IF s # <<>> /\ Last(s) \in Whitespace THEN RStrip(Front(s)) ELSE s

\* str.strip()
Strip(s) == RStrip(LStrip(s))

RECURSIVE SplitFrom(_, _, _)
\* Scan s left to right; cur is the token being read, acc the tokens read.
SplitFrom(s, cur, acc) ==
    IF s = <<>> THEN (IF cur = <<>> THEN acc ELSE Append(acc, cur))
    ELSE IF Head(s) \in Whitespace
         THEN SplitFrom(Tail(s), <<>>, IF cur = <<>> THEN acc ELSE Append(acc, cur))
         ELSE SplitFrom(Tail(s), Append(cur, Head(s)), acc)

\* str.split() without arguments: the runs of non-whitespace characters
Split(s) == SplitFrom(s, <<>>, <<>>)

DigitVal(c) ==
    CASE c = "0" -> 0 [] c = "1" -> 1 [] c = "2" -> 2 [] c = "3" -> 3 [] c = "4" -> 4
      [] c = "5" -> 5 [] c = "6" -> 6 [] c = "7" -> 7 [] c = "8" -> 8 [] c = "9" -> 9

DigitChar(d) ==
    CASE d = 0 -> "0" [] d = 1 -> "1" [] d = 2 -> "2" [] d = 3 -> "3" [] d = 4 -> "4"
      [] d = 5 -> "5" [] d = 6 -> "6" [] d = 7 -> "7" [] d = 8 -> "8" [] d = 9 -> "9"

\* The literals int() accepts: an optional sign, then digits, single underscores
\* allowed between digits.
IsIntLiteral(t) ==
    LET body == IF t # <<>> /\ Head(t) \in {"+", "-"} THEN Tail(t) ELSE t
    IN  /\ body # <<>>
        /\ \A i \in 1..Len(body) : body[i] \in Digits \cup {"_"}
        /\ Head(body) \in Digits
        /\ Last(body) \in Digits
        /\ \A i \in 1..(Len(body) - 1) : ~(body[i] = "_" /\ body[i + 1] = "_")

RECURSIVE DigitsValue(_, _)
DigitsValue(body, acc) ==
    IF body = <<>> THEN acc
    ELSE IF Head(body) = "_" THEN DigitsValue(Tail(body), acc)
    ELSE DigitsValue(Tail(body), 10 * acc + DigitVal(Head(body)))

\* int(t) for a literal t
IntValue(t) ==
    IF Head(t) = "-" THEN 0 - DigitsValue(Tail(t), 0)
    ELSE IF Head(t) = "+" THEN DigitsValue(Tail(t), 0)
    ELSE DigitsValue(t, 0)

RECURSIVE NatToStr(_)
NatToStr(n) == IF n < 10 THEN <<DigitChar(n)>> ELSE Append(NatToStr(n \div 10), DigitChar(n % 10))

\* str(n)
IntToStr(n) == IF n < 0 THEN <<"-">> \o NatToStr(0 - n) ELSE NatToStr(n)

\* mutant: a failed extraction is swallowed and job id 0 is used
ExtractJobId_Lenient(out) ==
    LET tokens == Split(Strip(out))
    IN  IF tokens = <<>> \/ ~IsIntLiteral(Last(tokens)) THEN [ok |-> TRUE, value |-> 0]
        ELSE [ok |-> TRUE, value |-> IntValue(Last(tokens))]

\* mutant: split()[0] instead of split()[-1]
ExtractJobId_FirstToken(out) ==
    LET tokens == Split(Strip(out))
    IN  IF tokens = <<>> THEN [ok |-> FALSE, error |-> "IndexError"]
        ELSE IF ~IsIntLiteral(Head(tokens)) THEN [ok |-> FALSE, error |-> "ValueError"]
        ELSE [ok |-> TRUE, value |-> IntValue(Head(tokens))]

\* int(result.stdout.decode("utf-8").strip().split()[-1]): the job id, or the
\* exception the expression raises
ExtractJobId(out) ==
    LET tokens == Split(Strip(out))
    IN  IF tokens = <<>> THEN [ok |-> FALSE, error |-> "IndexError"]
        ELSE IF ~IsIntLiteral(Last(tokens)) THEN [ok |-> FALSE, error |-> "ValueError"]
        ELSE [ok |-> TRUE, value |-> IntValue(Last(tokens))]

(***************************************************************************)
(* Paths (os.path of a POSIX system).                                      *)
(***************************************************************************)
RECURSIVE SplitOnFrom(_, _, _, _)
SplitOnFrom(s, sep, cur, acc) ==
    IF s = <<>> THEN Append(acc, cur)
    ELSE IF Head(s) = sep THEN SplitOnFrom(Tail(s), sep, <<>>, Append(acc, cur))
    ELSE SplitOnFrom(Tail(s), sep, Append(cur, Head(s)), acc)

\* s.split(sep): the pieces between the separators, empty ones included
SplitOn(s, sep) == SplitOnFrom(s, sep, <<>>, <<>>)

RECURSIVE JoinWith(_, _)
\* sep.join(pieces)
JoinWith(pieces, sep) ==
    IF pieces = <<>> THEN <<>>
    ELSE IF Len(pieces) = 1 THEN Head(pieces)
    ELSE Head(pieces) \o <<sep>> \o JoinWith(Tail(pieces), sep)

RECURSIVE NormComps(_, _, _)
\* the loop of posixpath.normpath over the components of a path
NormComps(comps, new_comps, initial_slashes) ==
    IF comps = <<>> THEN new_comps
    ELSE LET comp == Head(comps)
         IN  IF comp \in {<<>>, <<".">>}
             THEN NormComps(Tail(comps), new_comps, initial_slashes)
             ELSE IF \/ comp # <<"..">>
                     \/ (initial_slashes = 0 /\ new_comps = <<>>)
                     \/ (new_comps # <<>> /\ Last(new_comps) = <<"..">>)
             THEN NormComps(Tail(comps), Append(new_comps, comp), initial_slashes)
             ELSE IF new_comps # <<>>
             THEN NormComps(Tail(comps), Front(new_comps), initial_slashes)
             ELSE NormComps(Tail(comps), new_comps, initial_slashes)

\* os.path.normpath
normpath(path) ==
    IF path = <<>> THEN <<".">>
    ELSE LET lead(n) == Len(path) >= n /\ \A i \in 1..n : path[i] = "/"
             initial_slashes == IF ~lead(1) THEN 0
                                ELSE IF lead(2) /\ ~lead(3) THEN 2 ELSE 1
             body == JoinWith(NormComps(SplitOn(path, "/"), <<>>, initial_slashes), "/")
             res == [i \in 1..initial_slashes |-> "/"] \o body
         IN  IF res = <<>> THEN <<".">> ELSE res

\* os.path.basename: what follows the last slash
basename(path) == Last(SplitOn(path, "/"))

\* os.path.join(a, b)
join(a, b) ==
    IF b # <<>> /\ Head(b) = "/" THEN b
    ELSE IF a = <<>> \/ Last(a) = "/" THEN a \o b
    ELSE a \o <<"/">> \o b

\* the directories os.makedirs(path) leaves in existence: path and its ancestors
PathAndAncestors(path) ==
    {path} \cup {SubSeq(path, 1, i - 1) : i \in {j \in 2..Len(path) : path[j] = "/"}}

Exists(path) == path \in dirs \/ path \in DOMAIN files \/ path \in DOMAIN result_files

(***************************************************************************)
(* dict: the items in insertion order.  Assigning to a key that is present *)
(* replaces its value and keeps its place.                                 *)
(***************************************************************************)
DictValues(d) == [i \in 1..Len(d) |-> d[i].value]
DictHas(d, k) == \E i \in 1..Len(d) : d[i].key = k
DictGet(d, k) == d[CHOOSE i \in 1..Len(d) : d[i].key = k].value
\* mutant: assigning to a key that is present leaves its value as it was
DictSet_KeepFirst(d, k, v) ==
    IF DictHas(d, k) THEN d ELSE Append(d, [key |-> k, value |-> v])

DictSet(d, k, v) ==
    IF DictHas(d, k)
    THEN [i \in 1..Len(d) |-> IF d[i].key = k THEN [key |-> k, value |-> v] ELSE d[i]]
    ELSE Append(d, [key |-> k, value |-> v])

(***************************************************************************)
(* Templates.                                                              *)
(***************************************************************************)
DEFAULT_WORKING_DIR_ROOT == <<"experiments">>

REDUCE_COMMAND_TEMPLATE ==
    <<"python scrna.py reduce ", "{", "trained_nn_folder", "}", " ",
      "--data=data/integrate_imputing_dataset_kNN10_simgene_T.txt", " ",
      "--out_folder=", "{", "output_folder", "}">>

RETRIEVAL_COMMAND_TEMPLATE ==
    <<"python scrna.py retrieval ", "{", "reduced_data_folder", "}", " ",
      "--out_folder=", "{", "output_folder", "}">>

\* mutant: __missing__ returns the key without its braces
SafeDictGet_Bare(ctx, key) ==
    IF key \in DOMAIN ctx THEN ctx[key] ELSE key

\* mutant: __missing__ returns the empty string, as a defaultdict(str) would
SafeDictGet_Empty(ctx, key) ==
    IF key \in DOMAIN ctx THEN ctx[key] ELSE <<>>

\* SafeDict.__getitem__: the value of a key, or '{' + key + '}' for a missing one
SafeDictGet(ctx, key) ==
    IF key \in DOMAIN ctx THEN ctx[key] ELSE <<"{">> \o key \o <<"}">>

\* what a rendering gives: the text, or the exception raised
Rendered(text) == [ok |-> TRUE, value |-> text, error |-> "none"]
RenderError(exception) == [ok |-> FALSE, value |-> <<>>, error |-> exception]

\* the index of the first brace of s, or 0
FirstBrace(s) ==
    IF \E i \in 1..Len(s) : s[i] \in {"{", "}"}
    THEN CHOOSE i \in 1..Len(s) :
             s[i] \in {"{", "}"} /\ \A j \in 1..(i - 1) : s[j] \notin {"{", "}"}
    ELSE 0

\* Formatter.get_field for a field name without attribute or index: a name made
\* of digits, and the empty name (which is numbered automatically), is a position
\* in args, which is (); any other is a key of kwargs, the SafeDict
GetField(ctx, field_name) ==
    IF \A i \in 1..Len(field_name) : field_name[i] \in Digits
    THEN RenderError("IndexError")
    ELSE Rendered(SafeDictGet(ctx, field_name))

\* the text before the rest of a rendering, unless the rest raised
Before(text, rest) == IF rest.ok THEN Rendered(text \o rest.value) ELSE rest

RECURSIVE vformat(_, _)
\* string.Formatter().vformat(template, (), SafeDict(ctx)) for a template whose
\* replacement fields have no conversion, format specification, attribute or
\* index: text is copied, "{{" and "}}" give one brace, a single "}" and a "{"
\* that no "}" closes before the next "{" or the end raise ValueError, and
\* "{name}" is replaced by what get_field gives for name.
vformat(template, ctx) ==
    IF template = <<>> THEN Rendered(<<>>)
    ELSE IF Head(template) \notin {"{", "}"}
    THEN Before(<<Head(template)>>, vformat(Tail(template), ctx))
    ELSE IF Len(template) = 1 THEN RenderError("ValueError")
    ELSE IF template[2] = Head(template)
    THEN Before(<<Head(template)>>, vformat(SubSeq(template, 3, Len(template)), ctx))
    ELSE IF Head(template) = "}" THEN RenderError("ValueError")
    ELSE LET field == Tail(template)
             close == FirstBrace(field)
         IN  IF close = 0 THEN RenderError("ValueError")
             ELSE IF field[close] = "{" THEN RenderError("ValueError")
             ELSE LET obj == GetField(ctx, SubSeq(field, 1, close - 1))
                  IN  IF obj.ok
                      THEN Before(obj.value,
                                  vformat(SubSeq(field, close + 1, Len(field)), ctx))
                      ELSE obj

Ctx2(k1, v1, k2, v2) == [k \in {<<k1>>, <<k2>>} |-> IF k = <<k1>> THEN v1 ELSE v2]

\* mutant: the values are written last to first
CommandListText_Reversed(cmd_dict) ==
    Concat([i \in 1..Len(cmd_dict) |->
               DictValues(cmd_dict)[Len(cmd_dict) + 1 - i] \o <<"\n">>])

\* write_out_command_dict: the text written to the file
CommandListText(cmd_dict) ==
    Concat([i \in 1..Len(cmd_dict) |-> DictValues(cmd_dict)[i] \o <<"\n">>])

(***************************************************************************)
(* Experiment.prepare, lines 69-97: the values it computes.                *)
(***************************************************************************)
ModelName(model_folder) == basename(normpath(model_folder))

ReducedDataFolder(wd, model_folder) ==
    join(wd, <<"data_transformed_by_">> \o ModelName(model_folder))

TransformCommand(wd, model_folder) ==
    vformat(REDUCE_COMMAND_TEMPLATE,
            Ctx2("trained_nn_folder", model_folder,
                 "output_folder", ReducedDataFolder(wd, model_folder))).value

RECURSIVE TransformLoop(_, _, _, _)
\* lines 72-77: returns <<transform_commands, transform_data_folders>>
TransformLoop(model_folders, wd, commands, folders) ==
    IF model_folders = <<>> THEN <<commands, folders>>
    ELSE LET model_folder == Head(model_folders)
             model_name == ModelName(model_folder)
         IN  TransformLoop(Tail(model_folders), wd,
                 DictSet(commands, model_name, TransformCommand(wd, model_folder)),
                 DictSet(folders, model_name, ReducedDataFolder(wd, model_folder)))

RetrievalDir(wd) == join(wd, <<"retrieval_results">>)

RetrievalResultFolder(wd, model_name) == join(RetrievalDir(wd), model_name)

\* mutant: the two folders are bound to each other's placeholder
RetrievalCommand_Swapped(wd, model_name, transformed_data_folder) ==
    vformat(RETRIEVAL_COMMAND_TEMPLATE,
            Ctx2("reduced_data_folder", RetrievalResultFolder(wd, model_name),
                 "output_folder", transformed_data_folder)).value

RetrievalCommand(wd, model_name, transformed_data_folder) ==
    vformat(RETRIEVAL_COMMAND_TEMPLATE,
            Ctx2("reduced_data_folder", transformed_data_folder,
                 "output_folder", RetrievalResultFolder(wd, model_name))).value

RECURSIVE RetrievalLoop(_, _, _, _)
\* lines 88-92: returns <<retrieval_commands, retrieval_result_folders>>
RetrievalLoop(items, wd, commands, folders) ==
    IF items = <<>> THEN <<commands, folders>>
    ELSE LET model_name == Head(items).key
             transformed_data_folder == Head(items).value
         IN  RetrievalLoop(Tail(items), wd,
                 DictSet(commands, model_name,
                         RetrievalCommand(wd, model_name, transformed_data_folder)),
                 DictSet(folders, model_name, RetrievalResultFolder(wd, model_name)))

TRANSFORM_LIST == <<"transform_commands.list">>
RETRIEVAL_LIST == <<"retrieval_commands.list">>

(***************************************************************************)
(* The scheduler (sbatch, srun): an external collaborator.  It is modelled *)
(* as honouring what the commands of lines 27-33 and 121 ask of it: an     *)
(* array of tasks lo..hi, and "-d afterok:<id>", under which a job starts  *)
(* only once every task of job <id> has ended with success.                *)
(***************************************************************************)
Terminal == {"ok", "failed", "cancelled"}

IsNatLiteral(t) == t # <<>> /\ \A i \in 1..Len(t) : t[i] \in Digits

\* "--array=lo-hi" as the scheduler reads it: the task indices asked for, and
\* whether the text is a range at all
ArrayRange(text) ==
    LET parts == SplitOn(text, "-")
    IN  IF /\ Len(parts) = 2
           /\ IsNatLiteral(parts[1])
           /\ IsNatLiteral(parts[2])
           /\ IntValue(parts[1]) <= IntValue(parts[2])
        THEN [valid |-> TRUE, indices |-> IntValue(parts[1])..IntValue(parts[2])]
        ELSE [valid |-> FALSE, indices |-> {}]

\* "-d afterok:<id>" as the scheduler reads it: <<>> for no dependency, <<id>>
\* for a job id
DependsOn(text) ==
    IF text # <<>> /\ Head(text) = "afterok:" /\ IsNatLiteral(Tail(text))
    THEN <<IntValue(Tail(text))>>
    ELSE <<>>

DependsValid(text) ==
    IF text = <<>> THEN TRUE ELSE Head(text) = "afterok:" /\ IsNatLiteral(Tail(text))

HasJob(id) == \E j \in 1..Len(jobs) : jobs[j].id = id
JobOf(id) == jobs[CHOOSE j \in 1..Len(jobs) : jobs[j].id = id]

AllTasks(job, states) == \A i \in 1..Len(job.tasks) : job.tasks[i] \in states

\* the scheduler accepts a submission whose array and dependency it can read and
\* whose dependency names a job it knows
Acceptable(call) ==
    /\ IF call.array = <<>> THEN TRUE ELSE ArrayRange(call.array).valid
    /\ DependsValid(call.depends)
    /\ IF DependsOn(call.depends) = <<>> THEN TRUE ELSE HasJob(DependsOn(call.depends)[1])

NewJob(id, kind, call) ==
    [id |-> id, kind |-> kind, dep |-> DependsOn(call.depends),
     tasks |-> [i \in 1..(IF call.array = <<>> THEN 1
                          ELSE Cardinality(ArrayRange(call.array).indices)) |-> "pending"]]

\* what sbatch prints for a job it accepted ...
AcceptOutputs(id) ==
    {<<"Submitted", " ", "batch", " ", "job", " ">> \o IntToStr(id) \o <<"\n">>}

\* ... and on standard output for one it refused (the message goes to stderr)
RejectOutputs == {<<>>, <<"sbatch:", " ", "error", "\n">>}

\* subprocess.run of a submission: the scheduler takes the job or refuses it
Sbatch(call, kind) ==
    \/ /\ Acceptable(call)
       /\ jobs' = Append(jobs, NewJob(next_job_id, kind, call))
       /\ next_job_id' = next_job_id + 1
       /\ stdout' \in AcceptOutputs(next_job_id)
    \/ /\ UNCHANGED <<jobs, next_job_id>>
       /\ stdout' \in RejectOutputs

\* the state of a job's dependency
DepState(job) ==
    IF job.dep = <<>> THEN "none"
    ELSE IF ~HasJob(job.dep[1]) THEN "failed"
    ELSE IF AllTasks(JobOf(job.dep[1]), {"ok"}) THEN "satisfied"
    ELSE IF AllTasks(JobOf(job.dep[1]), Terminal) THEN "failed"
    ELSE "waiting"

(***************************************************************************)
(* The tasks of the array jobs.  Task i of the retrieval job runs line i   *)
(* of retrieval_commands.list, which leaves its results, if any, in        *)
(* retrieval_summary.csv under the command's --out_folder.                 *)
(***************************************************************************)
RESULT_FILE_NAME == <<"retrieval_summary.csv">>

\* the lines of a text written by write_out_command_dict
TextLines(text) == LET parts == SplitOn(text, "\n") IN SubSeq(parts, 1, Len(parts) - 1)

\* the value of --out_folder= in a command line
OutFolderOf(cmd) ==
    LET at == CHOOSE i \in 1..Len(cmd) :
                  cmd[i] = "--out_folder=" /\ \A j \in (i + 1)..Len(cmd) : cmd[j] # "--out_folder="
    IN  SubSeq(cmd, at + 1, Len(cmd))

\* the value of the first argument of "python scrna.py retrieval <folder> --out..."
InFolderOf(cmd) ==
    LET at == CHOOSE i \in 1..Len(cmd) :
                  cmd[i] = "--out_folder=" /\ \A j \in (i + 1)..Len(cmd) : cmd[j] # "--out_folder="
    IN  SubSeq(cmd, 2, at - 2)

TaskResultPath(i) ==
    join(OutFolderOf(TextLines(files[RETRIEVAL_LIST])[i]), RESULT_FILE_NAME)

Row(c, s) == [celltype |-> c, score |-> s, numeric |-> TRUE]
\* a row whose 'mean average precision' field float() cannot read
BadRow(c) == [celltype |-> c, score |-> 0, numeric |-> FALSE]

\* what a retrieval task may leave behind: nothing (<<>>), or a file <<rows>>
TaskOutputs == {<<>>, <<<<Row("T", 1)>>>>, <<<<BadRow("T")>>>>}

TaskStart(j, i) ==
    /\ jobs[j].tasks[i] = "pending"
    /\ DepState(jobs[j]) \in {"none", "satisfied"}
    /\ jobs' = [jobs EXCEPT ![j].tasks[i] = "running"]
    /\ UNCHANGED <<pc, inputs, rendering, dirs, files, result_files, working_dir_path, prepared,
                   stdout, job_ids, calls, next_job_id, aggregation, error>>

TaskFinish(j, i) ==
    /\ jobs[j].tasks[i] = "running"
    /\ \E status \in {"ok", "failed"} : jobs' = [jobs EXCEPT ![j].tasks[i] = status]
    /\ IF jobs[j].kind = "retrieval" /\ i <= Len(TextLines(files[RETRIEVAL_LIST]))
       THEN \E out \in TaskOutputs :
                result_files' = IF out = <<>> THEN result_files
                                ELSE [p \in DOMAIN result_files \cup {TaskResultPath(i)} |->
                                         IF p = TaskResultPath(i) THEN out[1]
                                         ELSE result_files[p]]
       ELSE UNCHANGED result_files
    /\ UNCHANGED <<pc, inputs, rendering, dirs, files, working_dir_path, prepared,
                   stdout, job_ids, calls, next_job_id, aggregation, error>>

\* a scheduler configured to do so cancels a job whose dependency can no longer
\* be satisfied; otherwise the job stays pending for ever
CancelInvalid(j) ==
    /\ kill_invalid_depend
    /\ DepState(jobs[j]) = "failed"
    /\ \E i \in 1..Len(jobs[j].tasks) : jobs[j].tasks[i] = "pending"
    /\ jobs' = [jobs EXCEPT ![j].tasks = [i \in 1..Len(jobs[j].tasks) |-> "cancelled"]]
    /\ UNCHANGED <<pc, inputs, rendering, dirs, files, result_files, working_dir_path, prepared,
                   stdout, job_ids, calls, next_job_id, aggregation, error>>

Scheduler ==
    \E j \in 1..Len(jobs) :
        \/ \E i \in 1..Len(jobs[j].tasks) : TaskStart(j, i) \/ TaskFinish(j, i)
        \/ CancelInvalid(j)

(***************************************************************************)
(* The main sequence, lines 170-175: Experiment(), prepare(), run(email),  *)
(* compile_results().  An exception that no one catches ends it.           *)
(***************************************************************************)
TIME_STR == <<"2026_11_05-10:00:00">>
EMAIL == <<"user@example.org">>

Raise(exception) ==
    /\ pc' = "failed"
    /\ error' = exception

\* mutant: makedirs(working_dir_path, exist_ok=True)
Construct_ExistOk ==
    /\ pc = "start"
    /\ LET path == IF argv_working_dir = <<>>
                   THEN join(DEFAULT_WORKING_DIR_ROOT, TIME_STR)
                   ELSE argv_working_dir
       IN  /\ dirs' = dirs \cup PathAndAncestors(path)
           /\ working_dir_path' = path
           /\ pc' = "prepare"
           /\ UNCHANGED error
    /\ UNCHANGED <<inputs, rendering, files, result_files, prepared, stdout, job_ids, calls,
                   jobs, next_job_id, aggregation>>

\* Experiment.__init__, lines 48-54
Construct ==
    /\ pc = "start"
    /\ LET path == IF argv_working_dir = <<>>
                   THEN join(DEFAULT_WORKING_DIR_ROOT, TIME_STR)
                   ELSE argv_working_dir
       IN  IF Exists(path)
           THEN /\ Raise("FileExistsError")
                /\ UNCHANGED <<dirs, working_dir_path>>
           ELSE /\ dirs' = dirs \cup PathAndAncestors(path)
                /\ working_dir_path' = path
                /\ pc' = "prepare"
                /\ UNCHANGED error
    /\ UNCHANGED <<inputs, rendering, files, result_files, prepared, stdout, job_ids, calls,
                   jobs, next_job_id, aggregation>>

WriteFile(fs, path, text) == [p \in DOMAIN fs \cup {path} |-> IF p = path THEN text ELSE fs[p]]

\* Experiment.prepare, lines 58-98
Prepare ==
    /\ pc = "prepare"
    /\ IF ~models_file.exists
       THEN /\ Raise("FileNotFoundError")
            /\ UNCHANGED <<dirs, files, prepared>>
       ELSE LET model_folders == [i \in 1..Len(models_file.lines) |->
                                     Strip(models_file.lines[i])]
                transform == TransformLoop(model_folders, working_dir_path, <<>>, <<>>)
                retrieval_dir == RetrievalDir(working_dir_path)
                retrieval == RetrievalLoop(transform[2], working_dir_path, <<>>, <<>>)
                files1 == WriteFile(files, TRANSFORM_LIST, CommandListText(transform[1]))
            IN  IF retrieval_dir \in dirs
                THEN /\ Raise("FileExistsError")
                     /\ files' = files1
                     /\ UNCHANGED <<dirs, prepared>>
                ELSE /\ dirs' = dirs \cup PathAndAncestors(retrieval_dir)
                     /\ files' = WriteFile(files1, RETRIEVAL_LIST,
                                           CommandListText(retrieval[1]))
                     /\ transform_commands' = transform[1]
                     /\ transform_data_folders' = transform[2]
                     /\ retrieval_commands' = retrieval[1]
                     /\ retrieval_result_folders' = retrieval[2]
                     /\ pc' = "submit_transform"
                     /\ UNCHANGED error
    /\ UNCHANGED <<inputs, rendering, result_files, working_dir_path, stdout, job_ids, calls,
                   jobs, next_job_id, aggregation>>

SlurmTransformOutFolder(wd) == join(wd, <<"slurm_transform_out">>)
\* mutant: the stage-2 log directory is put next to the workspaces, not in this one
SlurmRetrievalOutFolder_Root(wd) ==
    join(DEFAULT_WORKING_DIR_ROOT, <<"slurm_retrieval_out">>)

SlurmRetrievalOutFolder(wd) == join(wd, <<"slurm_retrieval_out">>)

\* mutant: "--array=0-{num_jobs}" is given str(num_jobs)
TransformCall_OffByOne(wd, num_jobs) ==
    [prog |-> "sbatch", array |-> <<"0", "-">> \o IntToStr(num_jobs),
     email |-> EMAIL, out_folder |-> SlurmTransformOutFolder(wd),
     depends |-> <<>>, script |-> "slurm_transform_array.sh"]

\* SLURM_TRANSFORM_COMMAND.format(...), line 105: "--array=0-{num_jobs}" is given
\* str(num_jobs - 1)
TransformCall(wd, num_jobs) ==
    [prog |-> "sbatch", array |-> <<"0", "-">> \o IntToStr(num_jobs - 1),
     email |-> EMAIL, out_folder |-> SlurmTransformOutFolder(wd),
     depends |-> <<>>, script |-> "slurm_transform_array.sh"]

\* the dependency text of lines 33 and 121: "afterok:{depends}"
AfterOk(job_id) == <<"afterok:">> \o IntToStr(job_id)

\* mutant: the stage-2 submission without its "-d afterok:{depends}"
RetrievalCall_NoDependency(wd, num_jobs, depends) ==
    [prog |-> "sbatch", array |-> <<"0", "-">> \o IntToStr(num_jobs - 1),
     email |-> EMAIL, out_folder |-> SlurmRetrievalOutFolder(wd),
     depends |-> <<>>, script |-> "slurm_retrieval_array.sh"]

\* SLURM_RETRIEVAL_COMMAND.format(...), line 114
RetrievalCall(wd, num_jobs, depends) ==
    [prog |-> "sbatch", array |-> <<"0", "-">> \o IntToStr(num_jobs - 1),
     email |-> EMAIL, out_folder |-> SlurmRetrievalOutFolder(wd),
     depends |-> AfterOk(depends), script |-> "slurm_retrieval_array.sh"]

\* wait_cmd.format(...), lines 121-122
WaitCall(depends) ==
    [prog |-> "srun", array |-> <<>>, email |-> <<>>, out_folder |-> <<>>,
     depends |-> AfterOk(depends), script |-> "echo"]

\* run, lines 102-107: the stage-1 submission
SubmitTransform ==
    /\ pc = "submit_transform"
    /\ LET folder == SlurmTransformOutFolder(working_dir_path)
           call == TransformCall(working_dir_path, Len(transform_commands))
       IN  IF folder \in dirs
           THEN /\ Raise("FileExistsError")
                /\ UNCHANGED <<dirs, calls, jobs, next_job_id, stdout>>
           ELSE /\ dirs' = dirs \cup PathAndAncestors(folder)
                /\ calls' = Append(calls, call)
                /\ Sbatch(call, "transform")
                /\ pc' = "parse_transform"
                /\ UNCHANGED error
    /\ UNCHANGED <<inputs, rendering, files, result_files, working_dir_path, prepared, job_ids,
                   aggregation>>

\* run, lines 108-109
ParseTransform ==
    /\ pc = "parse_transform"
    /\ LET parsed == ExtractJobId(stdout)
       IN  IF parsed.ok
           THEN /\ transform_job_id' = <<parsed.value>>
                /\ pc' = "submit_retrieval"
                /\ UNCHANGED error
           ELSE /\ Raise(parsed.error)
                /\ UNCHANGED transform_job_id
    /\ UNCHANGED <<inputs, rendering, dirs, files, result_files, working_dir_path, prepared, stdout,
                   retrieval_job_id, calls, jobs, next_job_id, aggregation>>

\* the job the stage-2 submission is made to depend on, line 114
RetrievalDepends == transform_job_id[1]

\* run, lines 110-116: the stage-2 submission
SubmitRetrieval ==
    /\ pc = "submit_retrieval"
    /\ LET folder == SlurmRetrievalOutFolder(working_dir_path)
           call == RetrievalCall(working_dir_path, Len(retrieval_commands),
                                 RetrievalDepends)
       IN  IF folder \in dirs
           THEN /\ Raise("FileExistsError")
                /\ UNCHANGED <<dirs, calls, jobs, next_job_id, stdout>>
           ELSE /\ dirs' = dirs \cup PathAndAncestors(folder)
                /\ calls' = Append(calls, call)
                /\ Sbatch(call, "retrieval")
                /\ pc' = "parse_retrieval"
                /\ UNCHANGED error
    /\ UNCHANGED <<inputs, rendering, files, result_files, working_dir_path, prepared, job_ids,
                   aggregation>>

\* run, lines 117-118
ParseRetrieval ==
    /\ pc = "parse_retrieval"
    /\ LET parsed == ExtractJobId(stdout)
       IN  IF parsed.ok
           THEN /\ retrieval_job_id' = <<parsed.value>>
                /\ pc' = "wait"
                /\ UNCHANGED error
           ELSE /\ Raise(parsed.error)
                /\ UNCHANGED retrieval_job_id
    /\ UNCHANGED <<inputs, rendering, dirs, files, result_files, working_dir_path, prepared, stdout,
                   transform_job_id, calls, jobs, next_job_id, aggregation>>

\* mutant: the wait depends on the stage-1 job
WaitDepends_Stage1 == transform_job_id[1]

\* the job the wait is made to depend on, line 122
WaitDepends == retrieval_job_id[1]

\* run, lines 119-122: srun is started; it ends when its one task has
IssueWait ==
    /\ pc = "wait"
    /\ LET call == WaitCall(WaitDepends)
       IN  /\ calls' = Append(calls, call)
           /\ IF Acceptable(call)
              THEN /\ jobs' = Append(jobs, NewJob(next_job_id, "waiter", call))
                   /\ next_job_id' = next_job_id + 1
                   /\ pc' = "waiting"
              ELSE /\ UNCHANGED <<jobs, next_job_id>>
                   /\ pc' = "compile"
    /\ UNCHANGED <<inputs, rendering, dirs, files, result_files, working_dir_path, prepared, stdout,
                   job_ids, aggregation, error>>

\* mutant: srun is started and not waited for
WaitReturn_NoBlock ==
    /\ pc = "waiting"
    /\ pc' = "compile"
    /\ UNCHANGED <<inputs, rendering, dirs, files, result_files, working_dir_path, prepared, stdout,
                   job_ids, calls, jobs, next_job_id, aggregation, error>>

\* line 122: subprocess.run returns when srun ends; its exit status is not looked at
WaitReturn ==
    /\ pc = "waiting"
    /\ AllTasks(jobs[Len(jobs)], Terminal)
    /\ pc' = "compile"
    /\ UNCHANGED <<inputs, rendering, dirs, files, result_files, working_dir_path, prepared, stdout,
                   job_ids, calls, jobs, next_job_id, aggregation, error>>

(***************************************************************************)
(* The result aggregator, lines 124-167.                                   *)
(***************************************************************************)
RECURSIVE Sum(_)
Sum(scores) == IF scores = <<>> THEN 0 ELSE Head(scores) + Sum(Tail(scores))

\* mutant: the sum is not divided by the number of scores
Mean_NoDivide(scores_list) == [num |-> Sum(scores_list), den |-> 1]

\* np.mean(scores_list) as the fraction num/den
Mean(scores_list) == [num |-> Sum(scores_list), den |-> Len(scores_list)]

RECURSIVE GroupScores(_, _)
\* lines 128-132: cell_type_scores_dict after the rows have been read
GroupScores(rows, cell_type_scores_dict) ==
    IF rows = <<>> THEN cell_type_scores_dict
    ELSE LET cur_cell_type == Head(rows).celltype
             cur_score == Head(rows).score
             so_far == IF DictHas(cell_type_scores_dict, cur_cell_type)
                       THEN DictGet(cell_type_scores_dict, cur_cell_type)
                       ELSE <<>>
         IN  GroupScores(Tail(rows),
                 DictSet(cell_type_scores_dict, cur_cell_type, Append(so_far, cur_score)))

\* get_avg_score_for_each_cell_type, lines 124-137: cell_type_avg_score_dict, or
\* the exception raised
get_avg_score_for_each_cell_type(path_to_csv) ==
    IF path_to_csv \notin DOMAIN result_files
    THEN [ok |-> FALSE, error |-> "FileNotFoundError"]
    ELSE LET rows == result_files[path_to_csv]
         IN  IF \E i \in 1..Len(rows) : ~rows[i].numeric
             THEN [ok |-> FALSE, error |-> "ValueError"]
             ELSE LET scores == GroupScores(rows, <<>>)
                  IN  [ok |-> TRUE,
                       value |-> [i \in 1..Len(scores) |->
                                     [key |-> scores[i].key,
                                      value |-> Mean(scores[i].value)]]]

overall_results_fieldnames == <<"model", "cell_type", "avg_score">>

TablePath(wd) == join(wd, <<"full_results_table.csv">>)

\* mutant: the table file is opened, and its header written, before the loop over
\* the models
CompileBegin_OpensTable ==
    /\ pc = "compile"
    /\ todo' = retrieval_result_folders
    /\ overall_results' = <<>>
    /\ table_files' = [p \in DOMAIN table_files \cup {TablePath(working_dir_path)} |->
                          IF p = TablePath(working_dir_path)
                          THEN [header |-> overall_results_fieldnames, rows |-> <<>>]
                          ELSE table_files[p]]
    /\ pc' = "read_results"
    /\ UNCHANGED <<inputs, rendering, dirs, files, result_files, working_dir_path,
                   prepared, stdout, job_ids, calls, jobs, next_job_id, error>>

\* compile_results and create_overall_results_table, lines 163-167 and 146-147
CompileBegin ==
    /\ pc = "compile"
    /\ todo' = retrieval_result_folders
    /\ overall_results' = <<>>
    /\ pc' = "read_results"
    /\ UNCHANGED <<inputs, rendering, dirs, files, result_files, table_files, working_dir_path,
                   prepared, stdout, job_ids, calls, jobs, next_job_id, error>>

\* the rows one model adds to overall_results, lines 153-155
ModelRows(model_name, cell_types_and_scores) ==
    [i \in 1..Len(cell_types_and_scores) |->
        [model |-> model_name, cell_type |-> cell_types_and_scores[i].key,
         avg_score |-> cell_types_and_scores[i].value]]

\* create_overall_results_table, lines 148-155: one iteration of the loop over the
\* models
CompileRead ==
    /\ pc = "read_results"
    /\ todo # <<>>
    /\ LET model_name == Head(todo).key
           results_file == join(Head(todo).value, RESULT_FILE_NAME)
           cell_types_and_scores == get_avg_score_for_each_cell_type(results_file)
       IN  IF cell_types_and_scores.ok
           THEN /\ overall_results' =
                       overall_results \o ModelRows(model_name, cell_types_and_scores.value)
                /\ todo' = Tail(todo)
                /\ UNCHANGED <<pc, error>>
           ELSE /\ Raise(cell_types_and_scores.error)
                /\ UNCHANGED <<todo, overall_results>>
    /\ UNCHANGED <<inputs, rendering, dirs, files, result_files, table_files, working_dir_path,
                   prepared, stdout, job_ids, calls, jobs, next_job_id>>

\* create_overall_results_table, lines 156-161: the table is written
CompileWrite ==
    /\ pc = "read_results"
    /\ todo = <<>>
    /\ table_files' = [p \in DOMAIN table_files \cup {TablePath(working_dir_path)} |->
                          IF p = TablePath(working_dir_path)
                          THEN [header |-> overall_results_fieldnames,
                                rows |-> overall_results]
                          ELSE table_files[p]]
    /\ pc' = "done"
    /\ UNCHANGED <<inputs, rendering, dirs, files, result_files, working_dir_path, prepared, stdout,
                   job_ids, calls, jobs, next_job_id, todo, overall_results, error>>

(***************************************************************************)
(* The inputs of a run.                                                    *)
(***************************************************************************)
\* lines of a model list file
ModelLines ==
    { <<"m1", "\n">>,
      <<"a", "/", "m1", "/", "\n">>,
      <<" ", "b", "/", ".", "/", "m2", " ", "\n">>,
      <<"\n">> }

SeqsUpTo(S, n) == UNION {[1..k -> S] : k \in 0..n}

ModelFiles ==
    {[exists |-> FALSE, lines |-> <<>>]}
        \cup {[exists |-> TRUE, lines |-> ls] : ls \in SeqsUpTo(ModelLines, MaxModels)}

DefaultWorkingDir == join(DEFAULT_WORKING_DIR_ROOT, TIME_STR)

\* the directories there may be before the run
PreExisting == {{}, {DEFAULT_WORKING_DIR_ROOT},
                {DEFAULT_WORKING_DIR_ROOT, DefaultWorkingDir}}

EmptyMap == [p \in {} |-> <<>>]

\* no template is being rendered on its own
NoRendering == format_string = <<>> /\ kwargs = <<>> /\ rendered = <<>>

Init ==
    /\ pc = "start"
    /\ NoRendering
    /\ argv_working_dir = <<>>
    /\ models_file \in ModelFiles
    /\ kill_invalid_depend \in BOOLEAN
    /\ dirs \in PreExisting
    /\ files = EmptyMap
    /\ result_files = EmptyMap
    /\ table_files = EmptyMap
    /\ working_dir_path = <<>>
    /\ transform_commands = <<>>
    /\ transform_data_folders = <<>>
    /\ retrieval_commands = <<>>
    /\ retrieval_result_folders = <<>>
    /\ stdout = <<>>
    /\ transform_job_id = <<>>
    /\ retrieval_job_id = <<>>
    /\ calls = <<>>
    /\ jobs = <<>>
    /\ next_job_id = FirstJobId
    /\ todo = <<>>
    /\ overall_results = <<>>
    /\ error = "none"

Next ==
    \/ Construct
    \/ Prepare
    \/ SubmitTransform
    \/ ParseTransform
    \/ SubmitRetrieval
    \/ ParseRetrieval
    \/ IssueWait
    \/ WaitReturn
    \/ CompileBegin
    \/ CompileRead
    \/ CompileWrite
    \/ Scheduler

Spec == Init /\ [][Next]_vars

(***************************************************************************)
(* States of the main sequence from which parts of it are examined over    *)
(* wider inputs than a whole run allows.                                   *)
(***************************************************************************)
\* what prepare leaves behind for a model list and a working directory
PreparedOf(lines, wd) ==
    LET model_folders == [i \in 1..Len(lines) |-> Strip(lines[i])]
        transform == TransformLoop(model_folders, wd, <<>>, <<>>)
        retrieval == RetrievalLoop(transform[2], wd, <<>>, <<>>)
    IN  [transform_commands |-> transform[1],
         transform_data_folders |-> transform[2],
         retrieval_commands |-> retrieval[1],
         retrieval_result_folders |-> retrieval[2],
         files |-> WriteFile(WriteFile(EmptyMap, TRANSFORM_LIST,
                                       CommandListText(transform[1])),
                             RETRIEVAL_LIST, CommandListText(retrieval[1]))]

TwoModels == << <<"m1", "\n">>, <<" ", "b", "/", ".", "/", "m2", " ", "\n">> >>

\* the characters of an arbitrary submission output: those of the id of the job
\* submitted, and some others
OutputAlphabet ==
    {" ", "\n", "0", "-", "x"} \cup {IntToStr(FirstJobId)[i] : i \in 1..Len(IntToStr(FirstJobId))}

\* run has issued the stage-1 submission for TwoModels, the scheduler has made
\* job FirstJobId of it, and run holds the submission's output: any text at all
ParseInit ==
    LET wd == DefaultWorkingDir
        prep == PreparedOf(TwoModels, wd)
        call == TransformCall(wd, Len(prep.transform_commands))
    IN  /\ pc = "parse_transform"
        /\ NoRendering
        /\ argv_working_dir = <<>>
        /\ models_file = [exists |-> TRUE, lines |-> TwoModels]
        /\ kill_invalid_depend = FALSE
        /\ dirs = PathAndAncestors(RetrievalDir(wd))
                      \cup PathAndAncestors(SlurmTransformOutFolder(wd))
        /\ files = prep.files
        /\ result_files = EmptyMap
        /\ table_files = EmptyMap
        /\ working_dir_path = wd
        /\ transform_commands = prep.transform_commands
        /\ transform_data_folders = prep.transform_data_folders
        /\ retrieval_commands = prep.retrieval_commands
        /\ retrieval_result_folders = prep.retrieval_result_folders
        /\ transform_job_id = <<>>
        /\ retrieval_job_id = <<>>
        /\ calls = <<call>>
        /\ todo = <<>>
        /\ overall_results = <<>>
        /\ error = "none"
        /\ jobs = <<NewJob(FirstJobId, "transform", call)>>
        /\ next_job_id = FirstJobId + 1
        /\ stdout \in SeqsUpTo(OutputAlphabet, MaxOutLen)

ParseNext ==
    \/ ParseTransform
    \/ SubmitRetrieval
    \/ ParseRetrieval
    \/ IssueWait

ParseSpec == ParseInit /\ [][ParseNext]_vars

\* the categories and rows of a result file
Categories == {"T", "B"}
RowValues ==
    {Row(c, v) : c \in Categories, v \in 0..MaxScore} \cup {BadRow(c) : c \in Categories}

\* what there may be at the place of a result file: nothing (<<>>), or a file <<rows>>
FileChoices == {<<>>} \cup {<<rows>> : rows \in SeqsUpTo(RowValues, MaxRows)}

ResultPaths(folders) ==
    [i \in 1..Len(folders) |-> join(folders[i].value, RESULT_FILE_NAME)]

\* the result files that exist when choice[i] is what there is at paths[i]
FilesAt(paths, choice) ==
    [p \in {paths[i] : i \in {k \in 1..Len(paths) : choice[k] # <<>>}} |->
        choice[CHOOSE i \in 1..Len(paths) : paths[i] = p][1]]

DoneJob(id, kind, call) ==
    [id |-> id, kind |-> kind, dep |-> DependsOn(call.depends),
     tasks |-> [i \in 1..Len(NewJob(id, kind, call).tasks) |-> "ok"]]

\* run has returned for TwoModels, every task having ended with success; the
\* result files are whatever the retrieval commands left: one model's is any file
\* within the bounds, the other's one of TaskOutputs
AggInit ==
    LET wd == DefaultWorkingDir
        prep == PreparedOf(TwoModels, wd)
        call1 == TransformCall(wd, Len(prep.transform_commands))
        call2 == RetrievalCall(wd, Len(prep.retrieval_commands), FirstJobId)
        call3 == WaitCall(FirstJobId + 1)
    IN  /\ pc = "compile"
        /\ NoRendering
        /\ argv_working_dir = <<>>
        /\ models_file = [exists |-> TRUE, lines |-> TwoModels]
        /\ kill_invalid_depend = FALSE
        /\ dirs = PathAndAncestors(RetrievalDir(wd))
                      \cup PathAndAncestors(SlurmTransformOutFolder(wd))
                      \cup PathAndAncestors(SlurmRetrievalOutFolder(wd))
        /\ files = prep.files
        /\ table_files = EmptyMap
        /\ working_dir_path = wd
        /\ transform_commands = prep.transform_commands
        /\ transform_data_folders = prep.transform_data_folders
        /\ retrieval_commands = prep.retrieval_commands
        /\ retrieval_result_folders = prep.retrieval_result_folders
        /\ stdout \in AcceptOutputs(FirstJobId + 1)
        /\ transform_job_id = <<FirstJobId>>
        /\ retrieval_job_id = <<FirstJobId + 1>>
        /\ calls = <<call1, call2, call3>>
        /\ jobs = <<DoneJob(FirstJobId, "transform", call1),
                    DoneJob(FirstJobId + 1, "retrieval", call2),
                    DoneJob(FirstJobId + 2, "waiter", call3)>>
        /\ next_job_id = FirstJobId + 3
        /\ todo = <<>>
        /\ overall_results = <<>>
        /\ error = "none"
        /\ \E any \in FileChoices, one \in TaskOutputs, at \in 1..2 :
               result_files = FilesAt(ResultPaths(retrieval_result_folders),
                                      IF at = 1 THEN <<any, one>> ELSE <<one, any>>)

AggNext ==
    \/ CompileBegin
    \/ CompileRead
    \/ CompileWrite

AggSpec == AggInit /\ [][AggNext]_vars

\* working directories a caller may give Experiment(): none, a name, a nested path
WorkingDirArgs == {<<>>, <<"wd">>, <<"out", "/", "run1">>}

\* what may exist before the run: an earlier run's workspace with its contents,
\* the root of the default workspaces, a directory of the name the caller gives
EarlierPaths ==
    {DEFAULT_WORKING_DIR_ROOT, RetrievalDir(DefaultWorkingDir), <<"wd">>, <<"out">>}

WsPreExisting == {UNION {PathAndAncestors(q) : q \in ps} : ps \in SUBSET EarlierPaths}

\* a whole run for TwoModels, from any of the working directory arguments and any
\* of the directory trees there may be before it
WsInit ==
    /\ pc = "start"
    /\ NoRendering
    /\ argv_working_dir \in WorkingDirArgs
    /\ models_file = [exists |-> TRUE, lines |-> TwoModels]
    /\ kill_invalid_depend \in BOOLEAN
    /\ dirs \in WsPreExisting
    /\ files = EmptyMap
    /\ result_files = EmptyMap
    /\ table_files = EmptyMap
    /\ working_dir_path = <<>>
    /\ transform_commands = <<>>
    /\ transform_data_folders = <<>>
    /\ retrieval_commands = <<>>
    /\ retrieval_result_folders = <<>>
    /\ stdout = <<>>
    /\ transform_job_id = <<>>
    /\ retrieval_job_id = <<>>
    /\ calls = <<>>
    /\ jobs = <<>>
    /\ next_job_id = FirstJobId
    /\ todo = <<>>
    /\ overall_results = <<>>
    /\ error = "none"

WsNext ==
    \/ Construct
    \/ Prepare
    \/ SubmitTransform
    \/ ParseTransform
    \/ SubmitRetrieval
    \/ ParseRetrieval
    \/ IssueWait
    \/ WaitReturn
    \/ CompileBegin
    \/ CompileRead
    \/ CompileWrite
    \/ Scheduler

WsSpec == WsInit /\ [][WsNext]_vars

(***************************************************************************)
(* Rendering on its own: a template is rendered with one context, the      *)
(* result with a second, and the template with both contexts at once.      *)
(***************************************************************************)
\* the pieces of the templates: single braces, text, placeholders of the keys
\* "a" and "b", and a placeholder with a number for a name
TemplateParts ==
    {<<"{">>, <<"}">>, <<"a">>, <<"{", "a", "}">>, <<"{", "b", "}">>, <<"{", "0", "}">>}

Templates == {Concat(parts) : parts \in SeqsUpTo(TemplateParts, MaxTemplateParts)}

ContextKeys == {<<"a">>, <<"b">>}

\* values: plain text, and text that reads as a placeholder
ContextValues == {<<"v">>, <<"{", "b", "}">>}

Contexts == UNION {[ks -> ContextValues] : ks \in SUBSET ContextKeys}

\* two contexts without a key in common
ContextPairs ==
    {cs \in Contexts \X Contexts : DOMAIN cs[1] \cap DOMAIN cs[2] = {}}

\* SafeDict(**first, **second)
BothContexts(first, second) ==
    [k \in DOMAIN first \cup DOMAIN second |->
        IF k \in DOMAIN first THEN first[k] ELSE second[k]]

RenderInit ==
    /\ pc = "render"
    /\ format_string \in Templates
    /\ kwargs \in ContextPairs
    /\ rendered = <<>>
    /\ argv_working_dir = <<>>
    /\ models_file = [exists |-> FALSE, lines |-> <<>>]
    /\ kill_invalid_depend = FALSE
    /\ dirs = {}
    /\ files = EmptyMap
    /\ result_files = EmptyMap
    /\ table_files = EmptyMap
    /\ working_dir_path = <<>>
    /\ transform_commands = <<>>
    /\ transform_data_folders = <<>>
    /\ retrieval_commands = <<>>
    /\ retrieval_result_folders = <<>>
    /\ stdout = <<>>
    /\ transform_job_id = <<>>
    /\ retrieval_job_id = <<>>
    /\ calls = <<>>
    /\ jobs = <<>>
    /\ next_job_id = FirstJobId
    /\ todo = <<>>
    /\ overall_results = <<>>
    /\ error = "none"

\* vformat(format_string, (), SafeDict(first context))
RenderFirst ==
    /\ pc = "render"
    /\ rendered' = <<vformat(format_string, kwargs[1])>>
    /\ pc' = "render_again"
    /\ UNCHANGED <<inputs, dirs, files, result_files, working_dir_path, prepared,
                   stdout, job_ids, calls, jobs, next_job_id, aggregation, error,
                   format_string, kwargs>>

\* vformat(what the first rendering gave, (), SafeDict(second context)); there is
\* nothing to render when the first rendering raised
RenderAgain ==
    /\ pc = "render_again"
    /\ rendered' = Append(rendered,
                          IF rendered[1].ok
                          THEN vformat(rendered[1].value, kwargs[2])
                          ELSE rendered[1])
    /\ pc' = "render_both"
    /\ UNCHANGED <<inputs, dirs, files, result_files, working_dir_path, prepared,
                   stdout, job_ids, calls, jobs, next_job_id, aggregation, error,
                   format_string, kwargs>>

\* vformat(format_string, (), SafeDict(both contexts))
RenderBoth ==
    /\ pc = "render_both"
    /\ rendered' = Append(rendered,
                          vformat(format_string, BothContexts(kwargs[1], kwargs[2])))
    /\ pc' = "rendered"
    /\ UNCHANGED <<inputs, dirs, files, result_files, working_dir_path, prepared,
                   stdout, job_ids, calls, jobs, next_job_id, aggregation, error,
                   format_string, kwargs>>

RenderNext ==
    \/ RenderFirst
    \/ RenderAgain
    \/ RenderBoth

RenderSpec == RenderInit /\ [][RenderNext]_vars

(***************************************************************************)
(* Properties.                                                             *)
(***************************************************************************)
\* the first and last index of the last whitespace-delimited token of a text
\* that has one
LastTokenEnd(s) == CHOOSE e \in 1..Len(s) :
    s[e] \notin Whitespace /\ \A k \in (e + 1)..Len(s) : s[k] \in Whitespace
LastTokenStart(s) == CHOOSE b \in 1..LastTokenEnd(s) :
    /\ \A k \in b..LastTokenEnd(s) : s[k] \notin Whitespace
    /\ IF b = 1 THEN TRUE ELSE s[b - 1] \in Whitespace
HasToken(s) == \E e \in 1..Len(s) : s[e] \notin Whitespace
LastToken(s) == SubSeq(s, LastTokenStart(s), LastTokenEnd(s))

RECURSIVE Pow10(_)
Pow10(n) == IF n = 0 THEN 1 ELSE 10 * Pow10(n - 1)

\* a decimal numeral: digits, after an optional minus sign
IsDecimal(t) ==
    IF t = <<>> THEN FALSE
    ELSE IF Head(t) = "-" THEN Len(t) > 1 /\ \A i \in 2..Len(t) : t[i] \in Digits
    ELSE \A i \in 1..Len(t) : t[i] \in Digits

RECURSIVE PlaceSum(_, _)
PlaceSum(t, i) ==
    IF i > Len(t) THEN 0 ELSE DigitVal(t[i]) * Pow10(Len(t) - i) + PlaceSum(t, i + 1)

\* the number a decimal numeral denotes
DecimalValue(t) == IF Head(t) = "-" THEN 0 - PlaceSum(t, 2) ELSE PlaceSum(t, 1)

EndsInInteger(s) == HasToken(s) /\ IsDecimal(LastToken(s))

JobsOfKind(kind) == {j \in 1..Len(jobs) : jobs[j].kind = kind}

\* run has been entered: its first statement has made the stage-1 log directory
RunEntered == working_dir_path # <<>> /\ SlurmTransformOutFolder(working_dir_path) \in dirs

\* run has returned
RunReturned == pc \in {"compile", "read_results", "done"}
                   \/ (pc = "failed" /\ Len(calls) = 3)

IsTransformSubmission(call) ==
    call.prog = "sbatch" /\ call.script = "slurm_transform_array.sh" /\ call.depends = <<>>

IsRetrievalSubmission(call) ==
    call.prog = "sbatch" /\ call.script = "slurm_retrieval_array.sh"

\* the calls issued so far are the first calls of: stage-1 submission, stage-2
\* submission depending on the job the scheduler made of the first, wait
\* depending on the job the scheduler made of the second
CallsInOrder ==
    /\ Len(calls) <= 3
    /\ Len(calls) >= 1 => IsTransformSubmission(calls[1])
    /\ Len(calls) >= 2 =>
           /\ IsRetrievalSubmission(calls[2])
           /\ JobsOfKind("transform") # {}
           /\ \A j \in JobsOfKind("transform") :
                  calls[2].depends = <<"afterok:">> \o IntToStr(jobs[j].id)
    /\ Len(calls) >= 3 =>
           /\ calls[3].prog = "srun"
           /\ JobsOfKind("retrieval") # {}
           /\ \A j \in JobsOfKind("retrieval") :
                  calls[3].depends = <<"afterok:">> \o IntToStr(jobs[j].id)

\* C1 as claimed: every run of Experiment.run that has ended, however it ended, has
\* issued the stage-1 submission, the stage-2 submission depending on the job of
\* the first and the wait depending on the job of the second, each once.
C1_EveryRunIssuesAllThreeCalls ==
    (RunEntered /\ pc \in {"failed", "compile", "read_results", "done"})
        => (Len(calls) = 3 /\ CallsInOrder)

\* C1 as amended: the external calls of a run are, in this order and each at most
\* once, the stage-1 submission, the stage-2 submission whose dependency is the job
\* id the stage-1 submission returned, and one wait whose dependency is the job id
\* the stage-2 submission returned; a run that returns has issued all three; and the
\* stage-2 submission is issued whatever the state of the stage-1 tasks (the
\* orchestrator is never blocked between the two submissions).
C1_CallsInOrderEachOnce ==
    /\ CallsInOrder
    /\ RunReturned => Len(calls) = 3
    /\ pc \in {"wait", "waiting"} => Len(calls) = (IF pc = "wait" THEN 2 ELSE 3)
    /\ pc = "submit_retrieval" => ENABLED SubmitRetrieval

\* both submissions and the wait are issued while no stage-1 task has even begun
C1_Witness ==
    /\ pc = "waiting"
    /\ Len(calls) = 3
    /\ \A j \in JobsOfKind("transform") : AllTasks(jobs[j], {"pending"})

Begun == {"running", "ok", "failed"}

\* C2: a task of the stage-2 (retrieval) job has begun only if every task of the
\* stage-1 (transform) job has ended with success; hence while a stage-1 task has
\* failed (which it stays), no stage-2 task has begun.
C2_RetrievalOnlyAfterTransformOk ==
    \A r \in JobsOfKind("retrieval") :
        (\E i \in 1..Len(jobs[r].tasks) : jobs[r].tasks[i] \in Begun)
            => /\ JobsOfKind("transform") # {}
               /\ \A t \in JobsOfKind("transform") : AllTasks(jobs[t], {"ok"})

\* a stage-2 task runs, in a job of two tasks
C2_Witness ==
    \E r \in JobsOfKind("retrieval") :
        /\ Len(jobs[r].tasks) = 2
        /\ \E i \in 1..2 : jobs[r].tasks[i] = "running"

\* C3: once the wait issued at the end of run has returned, and so whenever
\* compile_results reads a result file, every task of the stage-2 job is terminal.
C3_BarrierOutlastsRetrieval ==
    (Len(calls) = 3 /\ pc # "waiting")
        => /\ JobsOfKind("retrieval") # {}
           /\ \A r \in JobsOfKind("retrieval") : AllTasks(jobs[r], Terminal)

\* compile_results is reading the result files of two models
C3_Witness ==
    /\ pc = "read_results"
    /\ Len(todo) = 1
    /\ Len(retrieval_result_folders) = 2

\* C4 as claimed: once both array jobs are submitted the wait eventually returns,
\* whether the tasks succeed or fail.  If it does, then as long as the orchestrator
\* waits something can still happen: a state in which it waits and nothing can
\* happen any more is an execution in which the wait never returns.
C4_BarrierEventuallyReturns ==
    pc = "waiting" => ENABLED Next

ValidFile(path) ==
    /\ path \in DOMAIN result_files
    /\ \A k \in 1..Len(result_files[path]) : result_files[path][k].numeric

ModelsWithValidFile ==
    {retrieval_result_folders[i].key : i \in {k \in 1..Len(retrieval_result_folders) :
        ValidFile(join(retrieval_result_folders[k].value, RESULT_FILE_NAME))}}

AllModels == {retrieval_result_folders[i].key : i \in 1..Len(retrieval_result_folders)}

AggregationEnded == (pc = "done") \/ (pc = "failed" /\ Len(calls) = 3)

\* C5 as claimed: when some models have no valid result file and the others have
\* one, create_overall_results_table does not raise, and the table it writes has
\* rows for exactly the models with a valid file.
C5_SkipsModelsWithoutValidFile ==
    (AggregationEnded /\ ModelsWithValidFile # {} /\ ModelsWithValidFile # AllModels)
        => /\ pc = "done"
           /\ TablePath(working_dir_path) \in DOMAIN table_files
           /\ LET rows == table_files[TablePath(working_dir_path)].rows
              IN  {rows[k].model : k \in 1..Len(rows)} \subseteq ModelsWithValidFile

ModelFolderAt(i) == Strip(models_file.lines[i])

PrepareDone == RETRIEVAL_LIST \in DOMAIN files

DistinctNames ==
    \A i, j \in 1..Len(models_file.lines) :
        i # j => ModelName(ModelFolderAt(i)) # ModelName(ModelFolderAt(j))

\* C6: after prepare has run over a model list of N models with pairwise distinct
\* names there are exactly N transform commands and N retrieval commands, and for
\* each model the folder its retrieval command reads is the --out_folder of the
\* transform command that reduces that model's folder.
C6_OneCommandPerModelAndFoldersMatch ==
    (PrepareDone /\ DistinctNames) =>
        /\ Len(transform_commands) = Len(models_file.lines)
        /\ Len(retrieval_commands) = Len(models_file.lines)
        /\ \A i \in 1..Len(models_file.lines) :
               LET name == ModelName(ModelFolderAt(i))
               IN  /\ DictHas(transform_commands, name)
                   /\ DictHas(retrieval_commands, name)
                   /\ SubSeq(DictGet(transform_commands, name), 2,
                             1 + Len(ModelFolderAt(i))) = ModelFolderAt(i)
                   /\ InFolderOf(DictGet(retrieval_commands, name))
                          = OutFolderOf(DictGet(transform_commands, name))

\* prepare has run over two models with distinct names
C6_Witness ==
    /\ PrepareDone
    /\ DistinctNames
    /\ Len(models_file.lines) = 2
    /\ Len(retrieval_commands) = 2

OrchestratorIdle ==
    /\ calls' = calls
    /\ dirs' = dirs
    /\ files' = files
    /\ table_files' = table_files
    /\ todo' = todo
    /\ overall_results' = overall_results

\* C7: when the output a submission returned does not end in an integer, the next
\* thing run does is fail; and once it has failed, no further external call is
\* issued, nothing is aggregated and no directory is removed.
C7_RunFailsOnUnparseableOutput ==
    /\ [][(pc \in {"parse_transform", "parse_retrieval"} /\ ~EndsInInteger(stdout))
               => /\ ENABLED (ParseTransform \/ ParseRetrieval)
                  /\ pc' \in {pc, "failed"}
                  /\ OrchestratorIdle]_vars
    /\ [][pc = "failed" => (pc' = "failed" /\ OrchestratorIdle)]_vars

\* the stage-2 submission gave no output: run has failed after two calls, with the
\* directories it made still there
C7_Witness ==
    /\ pc = "failed"
    /\ error = "IndexError"
    /\ Len(calls) = 2
    /\ SlurmRetrievalOutFolder(working_dir_path) \in dirs
    /\ RetrievalDir(working_dir_path) \in dirs
    /\ table_files = EmptyMap

\* C8: for an output whose last whitespace-delimited token is an integer, the job
\* id extracted is the value of that token (and the extraction does not fail), and
\* the dependency of the next call is "afterok:" followed by a numeral of that value.
C8_JobIdIsLastToken ==
    /\ (pc = "submit_retrieval" /\ EndsInInteger(stdout))
           => transform_job_id = <<DecimalValue(LastToken(stdout))>>
    /\ (pc = "failed" /\ Len(calls) = 1) => ~EndsInInteger(stdout)
    /\ Len(calls) >= 2 =>
           /\ Head(calls[2].depends) = "afterok:"
           /\ IsDecimal(Tail(calls[2].depends))
           /\ DecimalValue(Tail(calls[2].depends)) = transform_job_id[1]

\* the id is taken from the second of two tokens, between whitespace
C8_Witness ==
    /\ pc = "submit_retrieval"
    /\ stdout = <<" ", "0", " ", "9", "\n">>
    /\ transform_job_id = <<9>>

NewlineCount(text) == Cardinality({i \in 1..Len(text) : text[i] = "\n"})

\* C9: the array indices each submission asks for are exactly 0..n-1, n being the
\* number of lines of that stage's command list (none for an empty list), and the
\* job the scheduler makes of it has one task for each.
C9_ArrayIndicesMatchCommandLines ==
    /\ Len(calls) >= 1 =>
           ArrayRange(calls[1].array).indices = 0..(NewlineCount(files[TRANSFORM_LIST]) - 1)
    /\ Len(calls) >= 2 =>
           ArrayRange(calls[2].array).indices = 0..(NewlineCount(files[RETRIEVAL_LIST]) - 1)
    /\ \A j \in JobsOfKind("transform") :
           Len(jobs[j].tasks) = NewlineCount(files[TRANSFORM_LIST])
    /\ \A j \in JobsOfKind("retrieval") :
           Len(jobs[j].tasks) = NewlineCount(files[RETRIEVAL_LIST])

\* both submissions have been made for command lists of two lines
C9_Witness ==
    /\ Len(calls) >= 2
    /\ NewlineCount(files[TRANSFORM_LIST]) = 2
    /\ NewlineCount(files[RETRIEVAL_LIST]) = 2

\* the observations of a category in a result file
Observations(path, category) ==
    {k \in 1..Len(result_files[path]) : result_files[path][k].celltype = category}

RECURSIVE ScoreTotal(_, _)
ScoreTotal(path, ks) ==
    IF ks = {} THEN 0
    ELSE LET k == CHOOSE x \in ks : TRUE
         IN  result_files[path][k].score + ScoreTotal(path, ks \ {k})

AllCategories ==
    UNION {{result_files[p][k].celltype : k \in 1..Len(result_files[p])} :
              p \in DOMAIN result_files}

\* C10: when every model has a valid result file, create_overall_results_table
\* does not fail, and the table it writes has, for each model and category, one
\* row if the model's file has observations of the category and none otherwise,
\* the row's avg_score being the sum of those observations over their number.
C10_OneRowPerPairWithTheMean ==
    (ModelsWithValidFile = AllModels) =>
        /\ ~(pc = "failed" /\ Len(calls) = 3)
        /\ pc = "done" =>
               LET rows == table_files[TablePath(working_dir_path)].rows
               IN  /\ \A k \in 1..Len(rows) : rows[k].model \in AllModels
                   /\ \A i \in 1..Len(retrieval_result_folders), c \in AllCategories :
                          LET path == join(retrieval_result_folders[i].value,
                                           RESULT_FILE_NAME)
                              obs == Observations(path, c)
                              mine == {k \in 1..Len(rows) :
                                          /\ rows[k].model = retrieval_result_folders[i].key
                                          /\ rows[k].cell_type = c}
                          IN  /\ Cardinality(mine) = (IF obs = {} THEN 0 ELSE 1)
                              /\ \A k \in mine :
                                     /\ rows[k].avg_score.den > 0
                                     /\ rows[k].avg_score.num * Cardinality(obs)
                                            = ScoreTotal(path, obs) * rows[k].avg_score.den

\* the table has been written from a file with the rows (T,1), (T,3), (B,2): the
\* mean of T is 4/2 and that of B is 2/1
C10_Witness ==
    /\ pc = "done"
    /\ ModelsWithValidFile = AllModels
    /\ \E p \in DOMAIN result_files :
           result_files[p] = <<Row("T", 1), Row("T", 3), Row("B", 2)>>
    /\ LET rows == table_files[TablePath(working_dir_path)].rows
       IN  /\ \E k \in 1..Len(rows) :
                  rows[k].cell_type = "T" /\ rows[k].avg_score = [num |-> 4, den |-> 2]
           /\ \E k \in 1..Len(rows) :
                  rows[k].cell_type = "B" /\ rows[k].avg_score = [num |-> 2, den |-> 1]

\* the working directory Experiment() resolves its argument to (lines 49-52)
ResolvedWorkingDir ==
    IF argv_working_dir = <<>> THEN DefaultWorkingDir ELSE argv_working_dir

\* C11: when the resolved working directory already exists, constructing the
\* Experiment fails, and leaves every directory and file as it was; and whenever
\* construction does give the Experiment a working directory, that directory did
\* not exist before.
C11_ExistingWorkspaceIsRefused ==
    /\ [][(pc = "start" /\ Exists(ResolvedWorkingDir))
              => /\ ENABLED Construct
                 /\ pc' \in {"start", "failed"}
                 /\ working_dir_path' = <<>>
                 /\ dirs' = dirs /\ files' = files
                 /\ result_files' = result_files /\ table_files' = table_files]_vars
    /\ [][working_dir_path' # working_dir_path
              => /\ working_dir_path' = ResolvedWorkingDir
                 /\ working_dir_path' \notin dirs
                 /\ working_dir_path' \in dirs']_vars

\* construction was refused for a working directory the caller named, which
\* existed, while an earlier run's workspace with its contents is still there
C11_Witness ==
    /\ pc = "failed"
    /\ error = "FileExistsError"
    /\ argv_working_dir = <<"wd">>
    /\ working_dir_path = <<>>
    /\ <<"wd">> \in dirs
    /\ RetrievalDir(DefaultWorkingDir) \in dirs

\* path p lies under directory d
Under(p, d) ==
    /\ d # <<>>
    /\ Len(p) > Len(d) + 1
    /\ SubSeq(p, 1, Len(d)) = d
    /\ p[Len(d) + 1] = "/"

\* C12 as claimed: every file the run has written (the two command lists and the
\* final results table) lies under the run's working directory.
C12_ArtifactsUnderWorkspace ==
    \A p \in DOMAIN files \cup DOMAIN table_files : Under(p, working_dir_path)

\* C15 as claimed: every directory the run creates is its working directory or
\* lies under it.
C15_DirectoriesUnderWorkspace ==
    [][\A d \in dirs' \ dirs : d = working_dir_path' \/ Under(d, working_dir_path')]_vars

\* C15 as amended: constructing the Experiment creates its working directory and
\* those of its ancestors that were missing; after that, every directory the run
\* creates (retrieval_results and the two log directories) lies under the working
\* directory.
C15_DirectoriesUnderWorkspaceOrAbove ==
    [][\A d \in dirs' \ dirs :
           IF working_dir_path = <<>>
           THEN d = working_dir_path' \/ Under(working_dir_path', d)
           ELSE d \in {RetrievalDir(working_dir_path),
                       SlurmTransformOutFolder(working_dir_path),
                       SlurmRetrievalOutFolder(working_dir_path)}
                /\ Under(d, working_dir_path)]_vars

\* run has made both log directories in a workspace the caller named, whose
\* parent construction had to make as well
C15_Witness ==
    /\ working_dir_path = <<"out", "/", "run1">>
    /\ {<<"out">>, RetrievalDir(working_dir_path),
        SlurmTransformOutFolder(working_dir_path),
        SlurmRetrievalOutFolder(working_dir_path)} \subseteq dirs
    /\ <<"wd">> \notin dirs
    /\ pc = "wait"

Braces == {"{", "}"}

\* every brace of template t delimits a placeholder: each "{" is followed by a
\* key of one or more characters other than braces and then by "}", and each "}"
\* ends such a placeholder
ClosingOf(t, i) ==
    CHOOSE j \in (i + 1)..(Len(t) + 1) :
        (j = Len(t) + 1 \/ t[j] \in Braces) /\ \A k \in (i + 1)..(j - 1) : t[k] \notin Braces
OpeningOf(t, i) ==
    CHOOSE j \in 0..(i - 1) :
        (j = 0 \/ t[j] \in Braces) /\ \A k \in (j + 1)..(i - 1) : t[k] \notin Braces
BracesDelimitPlaceholders(t) ==
    \A i \in 1..Len(t) :
        /\ t[i] = "{" => /\ ClosingOf(t, i) \in (i + 2)..Len(t)
                         /\ t[ClosingOf(t, i)] = "}"
        /\ t[i] = "}" => /\ OpeningOf(t, i) \in 1..(i - 2)
                         /\ t[OpeningOf(t, i)] = "{"

\* the key of the placeholder that opens at i
KeyAt(t, i) == SubSeq(t, i + 1, ClosingOf(t, i) - 1)

\* the placeholders' keys are names: none is made of digits only
KeysAreNames(t) ==
    \A i \in 1..Len(t) :
        t[i] = "{" => \E k \in 1..Len(KeyAt(t, i)) : KeyAt(t, i)[k] \notin Digits

\* what the claim says there is in the output for position i of the template:
\* for the "{" of a placeholder the context's value of its key, or the
\* placeholder itself when the key is absent; nothing for the rest of the
\* placeholder; the character itself for text
OutputFor(t, ctx, i) ==
    IF t[i] = "{"
    THEN IF KeyAt(t, i) \in DOMAIN ctx THEN ctx[KeyAt(t, i)]
         ELSE SubSeq(t, i, ClosingOf(t, i))
    ELSE IF t[i] = "}" \/ (OpeningOf(t, i) # 0 /\ t[OpeningOf(t, i)] = "{")
    THEN <<>>
    ELSE <<t[i]>>

ExpectedOutput(t, ctx) == Concat([i \in 1..Len(t) |-> OutputFor(t, ctx, i)])

\* C13 as claimed: rendering a template whose braces delimit placeholders raises
\* no error, and gives the template with every placeholder whose key is in the
\* context replaced by its value and every other placeholder left as it is.
C13_RenderingNeverRaises ==
    (Len(rendered) >= 1 /\ BracesDelimitPlaceholders(format_string))
        => rendered[1] = Rendered(ExpectedOutput(format_string, kwargs[1]))

\* C13 as amended: the same, for the templates whose placeholders' keys are names
\* (not numbers).
C13_RenderingFillsNamedPlaceholders ==
    (/\ Len(rendered) >= 1
     /\ BracesDelimitPlaceholders(format_string)
     /\ KeysAreNames(format_string))
        => rendered[1] = Rendered(ExpectedOutput(format_string, kwargs[1]))

\* "a{a}{b}" was rendered with a context that has "a" and not "b": the value of
\* "a", which itself reads as a placeholder, is in the output as it is, and so
\* is the placeholder of "b"
C13_Witness ==
    /\ format_string = <<"a", "{", "a", "}", "{", "b", "}">>
    /\ DOMAIN kwargs[1] = {<<"a">>}
    /\ kwargs[1][<<"a">>] = <<"{", "b", "}">>
    /\ Len(rendered) >= 1
    /\ rendered[1] = Rendered(<<"a", "{", "b", "}", "{", "b", "}">>)

\* C14 as claimed: for every template and two contexts without a key in common,
\* rendering with the first context and then the result with the second gives
\* the same string as rendering once with both contexts.
C14_TwoPassesEqualOnePass ==
    (Len(rendered) = 3 /\ (rendered[2].ok \/ rendered[3].ok))
        => rendered[2] = rendered[3]

\* no brace of template t is doubled, i.e. escaped
NoDoubledBrace(t) ==
    \A i \in 1..(Len(t) - 1) : t[i] \in Braces => t[i + 1] # t[i]

\* no value of context ctx has a brace in it
ValuesWithoutBraces(ctx) ==
    \A k \in DOMAIN ctx : \A i \in 1..Len(ctx[k]) : ctx[k][i] \notin Braces

\* C14 as amended: for every template without doubled braces and two contexts
\* without a key in common whose values have no brace in them, rendering with the
\* first context and then the result with the second gives what rendering once
\* with both contexts gives: the same string, or the same error.
C14_TwoPassesEqualOnePassWithoutBracesInValues ==
    (/\ Len(rendered) = 3
     /\ NoDoubledBrace(format_string)
     /\ ValuesWithoutBraces(kwargs[1])
     /\ ValuesWithoutBraces(kwargs[2]))
        => rendered[2] = rendered[3]

\* "{a}{b}" was rendered with "a" in the first context and "b" in the second:
\* the first pass left "{b}" for the second
C14_Witness ==
    /\ format_string = <<"{", "a", "}", "{", "b", "}">>
    /\ DOMAIN kwargs[1] = {<<"a">>}
    /\ DOMAIN kwargs[2] = {<<"b">>}
    /\ Len(rendered) = 3
    /\ rendered[1] = Rendered(<<"v", "{", "b", "}">>)
    /\ rendered[2] = Rendered(<<"v", "v">>)
    /\ rendered[3] = Rendered(<<"v", "v">>)

\* the model names of the model list, line by line
ListedNames == [i \in 1..Len(models_file.lines) |-> ModelName(ModelFolderAt(i))]

\* the lines at which a name of names appears for the first time
FirstAppearances(names) ==
    {i \in 1..Len(names) : \A j \in 1..(i - 1) : names[j] # names[i]}

\* the n-th distinct name of names, in order of first appearance
NthName(names, n) ==
    names[CHOOSE i \in FirstAppearances(names) :
              Cardinality({j \in FirstAppearances(names) : j <= i}) = n]

\* the place of a name among the distinct names
PlaceOf(names, name) ==
    CHOOSE n \in 1..Cardinality(FirstAppearances(names)) : NthName(names, n) = name

LastWithName(names, i) ==
    CHOOSE j \in i..Len(names) :
        names[j] = names[i] /\ \A k \in (j + 1)..Len(names) : names[k] # names[i]

\* C17: when two entries of the model list have the same model name, prepare
\* raises no error; each command set has one command for each name, the transform
\* command being built from the path of the last entry of that name; and the
\* number of commands, and the array size of each submission, is the number of
\* distinct names.
C17_LaterEntryOverwritesEarlier ==
    (models_file.exists /\ ~DistinctNames /\ working_dir_path # <<>> /\ pc # "prepare") =>
        LET names == ListedNames
            count == Cardinality(FirstAppearances(names))
        IN  /\ PrepareDone
            /\ Len(transform_commands) = count
            /\ Len(retrieval_commands) = count
            /\ \A i \in 1..Len(names) :
                   /\ Cardinality({k \in 1..Len(transform_commands) :
                                       transform_commands[k].key = names[i]}) = 1
                   /\ Cardinality({k \in 1..Len(retrieval_commands) :
                                       retrieval_commands[k].key = names[i]}) = 1
                   /\ LET folder == ModelFolderAt(LastWithName(names, i))
                          cmd == DictGet(transform_commands, names[i])
                      IN  SubSeq(cmd, 2, Len(cmd)) =
                              folder \o SubSeq(REDUCE_COMMAND_TEMPLATE, 5, 8)
                                     \o join(working_dir_path,
                                             <<"data_transformed_by_">> \o names[i])
            /\ \A c \in 1..Len(calls) :
                   calls[c].prog = "sbatch"
                       => calls[c].array = <<"0", "-">> \o IntToStr(count - 1)

\* both submissions have been made for the list "m1", "a/m1/": one command, built
\* from "a/m1/"
C17_Witness ==
    /\ models_file.lines = <<<<"m1", "\n">>, <<"a", "/", "m1", "/", "\n">>>>
    /\ Len(calls) >= 2
    /\ Len(transform_commands) = 1
    /\ SubSeq(transform_commands[1].value, 2, 5) = <<"a", "/", "m1", "/">>

\* the categories of the result file of the i-th model
CategoriesOf(i) ==
    LET path == join(retrieval_result_folders[i].value, RESULT_FILE_NAME)
    IN  {result_files[path][k].celltype : k \in 1..Len(result_files[path])}

\* C18: no final table exists while create_overall_results_table reads the
\* result files, nor after it has ended with an error; and a final table that
\* exists was written after every model's file was read: it has the header, and
\* for each model as many rows as the model's file has categories.
C18_TableOnlyAfterAllModelsRead ==
    /\ (pc = "read_results" \/ (pc = "failed" /\ Len(calls) = 3))
           => DOMAIN table_files = {}
    /\ \A p \in DOMAIN table_files :
           /\ p = TablePath(working_dir_path)
           /\ pc = "done"
           /\ table_files[p].header = <<"model", "cell_type", "avg_score">>
           /\ ModelsWithValidFile = AllModels
           /\ \A k \in 1..Len(table_files[p].rows) :
                  table_files[p].rows[k].model \in AllModels
           /\ \A i \in 1..Len(retrieval_result_folders) :
                  Cardinality({k \in 1..Len(table_files[p].rows) :
                      table_files[p].rows[k].model = retrieval_result_folders[i].key})
                      = Cardinality(CategoriesOf(i))

\* create_overall_results_table has read the first model's file and ended with
\* an error on the second's
C18_Witness ==
    /\ pc = "failed"
    /\ Len(calls) = 3
    /\ Len(todo) = 1
    /\ overall_results # <<>>
    /\ DOMAIN table_files = {}

====
